---- MODULE Spec2Model ----
(***************************************************************************)
(* Model of the publish orchestration engine of publish.py: schedule       *)
(* resolution (get_publish_date), due-set selection (get_todays_articles), *)
(* the status ledger (load_status / save_status / mark_published /         *)
(* is_published / get_published_platforms), the per-article dispatcher     *)
(* (publish_article) and the entry points cmd_publish and cmd_daemon.      *)
(*                                                                         *)
(* Dates are integers (days); a publisher's returned url is a positive     *)
(* integer (the ordinal of the post it created on that platform for that   *)
(* day), 0 stands for the falsy results None / "".                         *)
(***************************************************************************)
EXTENDS Integers, Sequences, FiniteSets, TLC

\* ------------------------------------------------------------------ bounds
MaxDay == 3
MaxToday == 3
MaxAborts == 1
MaxPosts == 2

Days == 1..MaxDay

\* ------------------------------------------------------ platforms / clients
\* publishers whose requests.post is not wrapped in try/except: a network
\* error or timeout propagates out of the publisher
RaisingPlatforms == {"medium", "devto", "hashnode", "blogger", "wordpress"}
\* publishers that wrap the call in try/except Exception and return None
CatchingPlatforms == {"telegraph", "tumblr", "gist", "github_pages", "gitlab"}
KnownPlatforms == RaisingPlatforms \cup CatchingPlatforms \cup {"linkedin"}

DefaultPlatforms == <<"devto", "hashnode", "linkedin">>
LinkedinManual == 1

\* ------------------------------------------------------------- content set
\* an article is [day, hasPlatforms, platforms]; hasPlatforms = FALSE models
\* an item of articles.json without a "platforms" key
PlatformsOfDay(d) ==
    CASE d % 4 = 1 -> <<"gist", "devto">>
      [] d % 4 = 2 -> <<"linkedin">>
      [] d % 4 = 3 -> <<>>
      [] OTHER -> <<"gist">>

Article(d) ==
    [day |-> d, hasPlatforms |-> (d % 4 # 3), platforms |-> PlatformsOfDay(d)]

InOrder == [i \in Days |-> Article(i)]
Reversed == [i \in Days |-> Article(MaxDay + 1 - i)]
\* the stored order of articles.json is whatever the file holds
ContentSets == {InOrder, Reversed}

StartDates == {0}
Frequencies == {"daily", "every_other_day"}

Range(s) == {s[i] : i \in 1..Len(s)}

\* the platforms some article of the content sets is published to
UsedPlatforms ==
    UNION {Range(IF Article(d).hasPlatforms THEN Article(d).platforms
                 ELSE DefaultPlatforms) : d \in Days}

\* -------------------------------------------------------------------- state
VARIABLES
    articles,   \* articles.json as loaded by load_articles (never written)
    config,     \* [start_date, frequency] from get_config
    today,      \* the calendar date now
    status,     \* contents of logs/publish_status.json: [published: day -> record]
    flag,       \* logs/campaign_complete.flag exists
    daemon,     \* [up, nextTick]: the --daemon process and its next scheduled run
    run,        \* the invocation in progress (cmd_publish or daily_job)
    pubCount,   \* external effect: posts created by each publisher, per (day, platform)
    aborts,     \* invocations ended so far (kill, exception) with posts not yet in the ledger
    lastDispatch \* per day, how the last publish_article call that attempted a platform ended

vars == <<articles, config, today, status, flag, daemon, run, pubCount, aborts, lastDispatch>>

EmptyStatus == [published |-> << >>]

\* the file between open(STATUS_FILE, "w"), which truncates it, and the end of
\* json.dump: not a JSON document, json.load raises on it
TornFile == [published |-> << >>, torn |-> TRUE]

FileTorn(f) == "torn" \in DOMAIN f

Idle ==
    [pc |-> "idle", kind |-> "none", dry |-> FALSE, todo |-> << >>,
     day |-> 0, platforms |-> << >>, remaining |-> << >>, attempted |-> << >>,
     results |-> << >>, loaded |-> EmptyStatus]

\* ------------------------------------------------------- schedule resolver
\* (get_publish_date_IgnoresCadence: without the doubling of the offset)
get_publish_date_IgnoresCadence(day_num, cfg) ==
    LET offset == (day_num - 1) \div 2
    IN  cfg.start_date + offset

\* (get_publish_date_Alternating: the offset taken as remainder, not quotient)
get_publish_date_Alternating(day_num, cfg) ==
    LET offset == (day_num - 1) % 2
    IN  cfg.start_date + (IF cfg.frequency = "every_other_day" THEN offset * 2 ELSE offset)

get_publish_date(day_num, cfg) ==
    LET offset == (day_num - 1) \div 2
    IN  cfg.start_date + (IF cfg.frequency = "every_other_day" THEN offset * 2 ELSE offset)

\* ------------------------------------------------------------ status ledger
load_status == status

\* json.load(f) raises JSONDecodeError: the exception leaves load_status
LoadRaises == FileTorn(status)

\* is_published(day_num, platforms); hasArg = FALSE models platforms=None
is_published(st, day_num, hasArg, platforms) ==
    IF day_num \notin DOMAIN st.published THEN FALSE
    ELSE IF hasArg /\ platforms # << >>
         THEN \A i \in 1..Len(platforms) :
                  platforms[i] \in Range(st.published[day_num].platforms)
         ELSE TRUE

get_published_platforms(st, day_num) ==
    IF day_num \in DOMAIN st.published THEN st.published[day_num].platforms ELSE << >>

\* datetime.now() at a write of the day's record: later than the timestamp the
\* record already holds (timestamps of different days are never compared)
Now(st, day_num) ==
    IF day_num \in DOMAIN st.published THEN st.published[day_num].published_at + 1 ELSE 1

\* the record mark_published stores for the day
PublishedRecord(platforms, urls, now) ==
    [platforms |-> platforms, published_at |-> now, urls |-> urls]

\* (mark_published_OnlyThisDay: the written ledger holds the day's entry alone)
mark_published_OnlyThisDay(st, day_num, platforms, urls, now) ==
    [st EXCEPT !.published =
        [d \in {day_num} |-> PublishedRecord(platforms, urls, now)]]

\* mark_published(day_num, platforms, urls): load, replace the day's entry, save
mark_published(st, day_num, platforms, urls, now) ==
    [st EXCEPT !.published =
        [d \in (DOMAIN st.published) \cup {day_num} |->
            IF d = day_num THEN PublishedRecord(platforms, urls, now)
            ELSE st.published[d]]]

\* ---------------------------------------------------------- due-set selector
\* the two branches of the loop body of get_todays_articles
\* (IsTodays_OnOrAfter: the date test written >= instead of ==)
IsTodays_OnOrAfter(a, cfg, now) == get_publish_date(a.day, cfg) >= now

IsTodays(a, cfg, now) == get_publish_date(a.day, cfg) = now

\* (IsCatchup_NoLedgerCheck: the catch-up branch without its is_published test)
IsCatchup_NoLedgerCheck(a, st, cfg, now) ==
    /\ get_publish_date(a.day, cfg) # now
    /\ get_publish_date(a.day, cfg) < now

\* (IsCatchup_NotAfter: the catch-up branch as a test of its own, not an elif)
IsCatchup_NotAfter(a, st, cfg, now) ==
    /\ get_publish_date(a.day, cfg) <= now
    /\ ~is_published(st, a.day, a.hasPlatforms, a.platforms)

IsCatchup(a, st, cfg, now) ==
    /\ get_publish_date(a.day, cfg) # now
    /\ get_publish_date(a.day, cfg) < now
    /\ ~is_published(st, a.day, a.hasPlatforms, a.platforms)

\* (get_todays_articles_TodayFirst: the two lists concatenated the other way)
get_todays_articles_TodayFirst(arts, st, cfg, now) ==
    LET catchup(a) == IsCatchup(a, st, cfg, now)
        todays(a) == IsTodays(a, cfg, now)
    IN  SelectSeq(arts, todays) \o SelectSeq(arts, catchup)

get_todays_articles(arts, st, cfg, now) ==
    LET catchup(a) == IsCatchup(a, st, cfg, now)
        todays(a) == IsTodays(a, cfg, now)
    IN  SelectSeq(arts, catchup) \o SelectSeq(arts, todays)

\* get_todays_articles reads the ledger (is_published) only for an item whose
\* date is before today; that read raises on a torn file
SelectRaises(arts, cfg, now) ==
    /\ LoadRaises
    /\ \E i \in 1..Len(arts) : get_publish_date(arts[i].day, cfg) < now

\* ------------------------------------------------------------ status report
\* cmd_status: the marker printed for an article
StatusMarker(a, st, cfg, now) ==
    IF a.day \in DOMAIN st.published THEN "published"
    ELSE IF get_publish_date(a.day, cfg) < now THEN "overdue"
    ELSE IF get_publish_date(a.day, cfg) = now THEN "today"
    ELSE "upcoming"

\* ------------------------------------------------------------------- Init
NoDispatch == [ok |-> {}, failed |-> {}, ended |-> "none"]

DaemonDown == [up |-> FALSE, nextTick |-> 0]

Init ==
    /\ articles \in ContentSets
    /\ config \in [start_date : StartDates, frequency : Frequencies]
    /\ today \in {d - 1 : d \in StartDates}
    /\ status = EmptyStatus
    /\ flag = FALSE
    /\ daemon = DaemonDown
    /\ run = [p \in {1} |-> Idle]
    /\ pubCount = [d \in Days |-> [pl \in UsedPlatforms |-> 0]]
    /\ aborts = 0
    /\ lastDispatch = [d \in Days |-> NoDispatch]

\* --------------------------------------------------------------- dispatcher
\* platforms = article.get("platforms", ["devto", "hashnode", "linkedin"])
ArticlePlatforms(a) == IF a.hasPlatforms THEN a.platforms ELSE DefaultPlatforms

\* remaining_platforms = [p for p in platforms if p not in already_published]
RemainingPlatforms(st, day, platforms) ==
    LET already_published == get_published_platforms(st, day)
        notDone(pl) == pl \notin Range(already_published)
    IN  SelectSeq(platforms, notDone)

\* existing_urls: the urls of the day's record, {} without a record
ExistingUrls(st, day) ==
    IF day \in DOMAIN st.published THEN st.published[day].urls ELSE << >>

\* (SkipsArticle_Never: publish_article without its early return)
SkipsArticle_Never(st, day, platforms, dry) == FALSE

\* the early return of publish_article: already published and not a dry run
SkipsArticle(st, day, platforms, dry) == is_published(st, day, TRUE, platforms) /\ ~dry

\* (ReturnsBeforeLoop_IgnoresDry: without the dry-run return)
ReturnsBeforeLoop_IgnoresDry(st, day, platforms, dry) ==
    SkipsArticle(st, day, platforms, dry)

\* publish_article returns before its platform loop: skipped, or a dry run
ReturnsBeforeLoop(st, day, platforms, dry) ==
    SkipsArticle(st, day, platforms, dry) \/ dry

\* results[platform] = url
PutUrl(results, platform, url) ==
    [q \in (DOMAIN results) \cup {platform} |->
        IF q = platform THEN url ELSE results[q]]

\* (MarkedPlatforms_Default: the default list recorded whatever the item's is)
MarkedPlatforms_Default(platforms, results) == DefaultPlatforms

\* the list handed to mark_published as the day's done platforms
MarkedPlatforms(platforms, results) == platforms

\* entering a run: cmd_publish / daily_job loop over the selected articles
StartRun(p, kind, dry, todo) ==
    run' = [run EXCEPT ![p] = [Idle EXCEPT !.pc = "next", !.kind = kind,
                                            !.dry = dry, !.todo = todo]]

\* an exception from reading or writing the status file leaves the command
LedgerError(p, kind) ==
    run' = [run EXCEPT ![p] = [Idle EXCEPT !.pc = "ledger_error", !.kind = kind]]

\* cmd_publish without --day
CmdPublishToday(p, dry) ==
    /\ run[p].pc = "idle"
    /\ IF SelectRaises(articles, config, today)
       THEN LedgerError(p, "today")
       ELSE LET todays_articles == get_todays_articles(articles, load_status, config, today)
            IN  IF todays_articles = << >>
                THEN run' = run
                ELSE StartRun(p, "today", dry, todays_articles)
    /\ UNCHANGED <<articles, config, today, status, flag, daemon, pubCount, aborts, lastDispatch>>

\* cmd_publish with --day N
CmdPublishDay(p, d, dry) ==
    /\ run[p].pc = "idle"
    /\ LET found == SelectSeq(articles, LAMBDA a : a.day = d)
       IN  IF found = << >>
           THEN run' = run
           ELSE StartRun(p, "day", dry, <<Head(found)>>)
    /\ UNCHANGED <<articles, config, today, status, flag, daemon, pubCount, aborts, lastDispatch>>

\* publish_article up to the dispatch loop: skip, dry run, or compute remaining
PublishArticleBegin(p) ==
    /\ run[p].pc = "next"
    /\ run[p].todo # << >>
    /\ LET a == Head(run[p].todo)
           platforms == ArticlePlatforms(a)
           st == load_status
       IN  IF LoadRaises
           THEN LedgerError(p, run[p].kind)
           ELSE IF ReturnsBeforeLoop(st, a.day, platforms, run[p].dry)
           THEN run' = [run EXCEPT ![p].todo = Tail(@)]
           ELSE run' = [run EXCEPT ![p].todo = Tail(@),
                                   ![p].pc = "loop",
                                   ![p].day = a.day,
                                   ![p].platforms = platforms,
                                   ![p].remaining = RemainingPlatforms(st, a.day, platforms),
                                   ![p].attempted = << >>,
                                   ![p].results = ExistingUrls(st, a.day)]
    /\ UNCHANGED <<articles, config, today, status, flag, daemon, pubCount, aborts, lastDispatch>>

\* posts made in the current publish_article call, not yet written to the ledger
Unrecorded(p) ==
    IF run[p].pc \in {"loop", "mark", "save"}
    THEN {pl \in Range(run[p].attempted) : pl \in DOMAIN run[p].results}
    ELSE {}

\* an invocation that ends without completing mark_published; those that lose
\* posts or leave the file torn are counted, and bounded by MaxAborts
AbortCounted(p) ==
    IF Unrecorded(p) = {} /\ run[p].pc # "save"
    THEN aborts' = aborts
    ELSE aborts < MaxAborts /\ aborts' = aborts + 1

\* one iteration of the platform loop whose publisher returns a url
AttemptOk(p) ==
    /\ run[p].pc = "loop"
    /\ run[p].remaining # << >>
    /\ LET platform == Head(run[p].remaining)
           day == run[p].day
       IN  /\ platform \in KnownPlatforms
           /\ pubCount[day][platform] < MaxPosts
           /\ pubCount' = [pubCount EXCEPT ![day][platform] = @ + 1]
           /\ LET url == IF platform = "linkedin" THEN LinkedinManual
                         ELSE pubCount[day][platform] + 1
              IN  run' = [run EXCEPT ![p].remaining = Tail(@),
                                      ![p].attempted = Append(@, platform),
                                      ![p].results = PutUrl(@, platform, url)]
    /\ UNCHANGED <<articles, config, today, status, flag, daemon, aborts, lastDispatch>>

\* one iteration whose publisher returns None (or ""): nothing is recorded
AttemptFail(p) ==
    /\ run[p].pc = "loop"
    /\ run[p].remaining # << >>
    /\ Head(run[p].remaining) # "linkedin"
    /\ run' = [run EXCEPT ![p].remaining = Tail(@),
                          ![p].attempted = Append(@, Head(run[p].remaining))]
    /\ UNCHANGED <<articles, config, today, status, flag, daemon, pubCount, aborts, lastDispatch>>

\* one iteration whose publisher raises (requests.post outside try/except)
AttemptRaise(p) ==
    /\ run[p].pc = "loop"
    /\ run[p].remaining # << >>
    /\ Head(run[p].remaining) \in RaisingPlatforms
    /\ AbortCounted(p)
    /\ lastDispatch' = [lastDispatch EXCEPT ![run[p].day] =
            [ok |-> Unrecorded(p),
             failed |-> (Range(run[p].attempted) \ Unrecorded(p)) \cup {Head(run[p].remaining)},
             ended |-> "raised"]]
    /\ run' = [run EXCEPT ![p].pc = "aborted",
                          ![p].attempted = Append(@, Head(run[p].remaining))]
    /\ UNCHANGED <<articles, config, today, status, flag, daemon, pubCount>>

\* after the loop, mark_published: status = load_status()
MarkLoad(p) ==
    /\ run[p].pc = "loop"
    /\ run[p].remaining = << >>
    /\ IF LoadRaises
       THEN /\ AbortCounted(p)
            /\ lastDispatch' = [lastDispatch EXCEPT ![run[p].day] =
                    [ok |-> Unrecorded(p),
                     failed |-> Range(run[p].attempted) \ Unrecorded(p),
                     ended |-> "raised"]]
            /\ LedgerError(p, run[p].kind)
       ELSE /\ aborts' = aborts
            /\ lastDispatch' = lastDispatch
            /\ run' = [run EXCEPT ![p].pc = "mark", ![p].loaded = load_status]
    /\ UNCHANGED <<articles, config, today, status, flag, daemon, pubCount>>

\* save_status: open(STATUS_FILE, "w") truncates the file
SaveOpen(p) ==
    /\ run[p].pc = "mark"
    /\ status' = TornFile
    /\ run' = [run EXCEPT ![p].pc = "save"]
    /\ UNCHANGED <<articles, config, today, flag, daemon, pubCount, aborts, lastDispatch>>

\* save_status: json.dump of the loaded dict with the day's entry replaced,
\* the file is closed, mark_published and publish_article return
SaveDump(p) ==
    /\ run[p].pc = "save"
    /\ status' = mark_published(run[p].loaded, run[p].day,
                                MarkedPlatforms(run[p].platforms, run[p].results),
                                run[p].results, Now(run[p].loaded, run[p].day))
    /\ lastDispatch' = [lastDispatch EXCEPT ![run[p].day] =
            [ok |-> Unrecorded(p),
             failed |-> Range(run[p].attempted) \ Unrecorded(p),
             ended |-> "returned"]]
    /\ run' = [run EXCEPT ![p] = [Idle EXCEPT !.pc = "next", !.kind = run[p].kind,
                                              !.dry = run[p].dry, !.todo = run[p].todo]]
    /\ UNCHANGED <<articles, config, today, flag, daemon, pubCount, aborts>>

\* (Propagates_Swallowed: the exception is caught and the article loop goes on)
Propagates_Swallowed(p) == run' = [run EXCEPT ![p].pc = "next"]

\* an exception raised inside mark_published leaves publish_article and the
\* article loop of cmd_publish / daily_job: nothing catches it
Propagates(p) == run' = [run EXCEPT ![p].pc = "ledger_error"]

\* save_status raises: open() fails and the file is untouched, or json.dump
\* fails after the file was truncated
SaveFail(p) ==
    /\ run[p].pc \in {"mark", "save"}
    /\ AbortCounted(p)
    /\ lastDispatch' = [lastDispatch EXCEPT ![run[p].day] =
            [ok |-> Unrecorded(p),
             failed |-> Range(run[p].attempted) \ Unrecorded(p),
             ended |-> "save_failed"]]
    /\ Propagates(p)
    /\ UNCHANGED <<articles, config, today, status, flag, daemon, pubCount>>

\* check_campaign_complete: done >= total writes the flag file
CampaignComplete(st, arts) == Cardinality(DOMAIN st.published) >= Len(arts)

\* the article loop is over: cmd_publish checks the campaign, daily_job returns
RunEnd(p) ==
    /\ run[p].pc = "next"
    /\ run[p].todo = << >>
    /\ IF run[p].kind = "today" /\ ~run[p].dry
       THEN IF LoadRaises
            THEN flag' = flag /\ LedgerError(p, run[p].kind)
            ELSE /\ flag' = (flag \/ CampaignComplete(load_status, articles))
                 /\ run' = [run EXCEPT ![p] = Idle]
       ELSE flag' = flag /\ run' = [run EXCEPT ![p] = Idle]
    /\ UNCHANGED <<articles, config, today, status, daemon, pubCount, aborts, lastDispatch>>

\* the process of an invocation ends; a daily_job invocation is the daemon itself
DaemonAfterExit(p) ==
    IF run[p].kind = "daemon" THEN DaemonDown ELSE daemon

\* an exception that left publish_article unwinds the whole process
ExceptionExit(p) ==
    /\ run[p].pc \in {"aborted", "ledger_error"}
    /\ run' = [run EXCEPT ![p] = Idle]
    /\ daemon' = DaemonAfterExit(p)
    /\ UNCHANGED <<articles, config, today, status, flag, pubCount, aborts, lastDispatch>>

\* the process is killed between two steps of a run
Kill(p) ==
    /\ run[p].pc \in {"next", "loop", "mark", "save"}
    /\ AbortCounted(p)
    /\ run' = [run EXCEPT ![p] = Idle]
    /\ daemon' = DaemonAfterExit(p)
    /\ UNCHANGED <<articles, config, today, status, flag, pubCount, lastDispatch>>

\* (DailyJob_Skip: a tick or a startup that does not run the job)
DailyJob_Skip(p) == run' = run

\* daily_job: load, select, then the article loop
DailyJob(p) ==
    LET todays_articles == get_todays_articles(articles, load_status, config, today)
    IN  IF SelectRaises(articles, config, today)
        THEN LedgerError(p, "daemon")
        ELSE IF todays_articles = << >>
        THEN run' = run
        ELSE StartRun(p, "daemon", FALSE, todays_articles)

\* cmd_daemon: schedule the daily job and run it once immediately
DaemonStart(p) ==
    /\ ~daemon.up
    /\ run[p].pc = "idle"
    /\ \E t \in {today, today + 1} : daemon' = [up |-> TRUE, nextTick |-> t]
    /\ DailyJob(p)
    /\ UNCHANGED <<articles, config, today, status, flag, pubCount, aborts, lastDispatch>>

\* run_pending at publish_time
DaemonTick(p) ==
    /\ daemon.up
    /\ run[p].pc = "idle"
    /\ daemon.nextTick <= today
    /\ daemon' = [daemon EXCEPT !.nextTick = today + 1]
    /\ DailyJob(p)
    /\ UNCHANGED <<articles, config, today, status, flag, pubCount, aborts, lastDispatch>>

\* Ctrl+C while the daemon sleeps
DaemonStop ==
    /\ daemon.up
    /\ \A p \in DOMAIN run : run[p].kind # "daemon"
    /\ daemon' = DaemonDown
    /\ UNCHANGED <<articles, config, today, status, flag, run, pubCount, aborts, lastDispatch>>

\* midnight; a running daemon has run its pending job before the date changes
NextDay ==
    /\ today < MaxToday
    /\ \A p \in DOMAIN run : run[p].pc = "idle"
    /\ ~(daemon.up /\ daemon.nextTick <= today)
    /\ today' = today + 1
    /\ UNCHANGED <<articles, config, status, flag, daemon, run, pubCount, aborts, lastDispatch>>

Next ==
    \/ \E p \in DOMAIN run, dry \in BOOLEAN : CmdPublishToday(p, dry)
    \/ \E p \in DOMAIN run, d \in 1..(MaxDay + 1), dry \in BOOLEAN : CmdPublishDay(p, d, dry)
    \/ \E p \in DOMAIN run : PublishArticleBegin(p)
    \/ \E p \in DOMAIN run : AttemptOk(p)
    \/ \E p \in DOMAIN run : AttemptFail(p)
    \/ \E p \in DOMAIN run : AttemptRaise(p)
    \/ \E p \in DOMAIN run : MarkLoad(p)
    \/ \E p \in DOMAIN run : SaveOpen(p)
    \/ \E p \in DOMAIN run : SaveDump(p)
    \/ \E p \in DOMAIN run : SaveFail(p)
    \/ \E p \in DOMAIN run : RunEnd(p)
    \/ \E p \in DOMAIN run : ExceptionExit(p)
    \/ \E p \in DOMAIN run : Kill(p)
    \/ \E p \in DOMAIN run : DaemonStart(p)
    \/ \E p \in DOMAIN run : DaemonTick(p)
    \/ DaemonStop
    \/ NextDay

Spec == Init /\ [][Next]_vars

\* the same program when no invocation is cut short between a post and the
\* ledger write (the budget of such interruptions is spent from the start)
InitNoLoss ==
    /\ articles \in ContentSets
    /\ config \in [start_date : StartDates, frequency : Frequencies]
    /\ today \in {d - 1 : d \in StartDates}
    /\ status = EmptyStatus
    /\ flag = FALSE
    /\ daemon = DaemonDown
    /\ run = [p \in {1} |-> Idle]
    /\ pubCount = [d \in Days |-> [pl \in UsedPlatforms |-> 0]]
    /\ aborts = MaxAborts
    /\ lastDispatch = [d \in Days |-> NoDispatch]

SpecNoLoss == InitNoLoss /\ [][Next]_vars

\* a content set in which one item carries "platforms": []
WithEmptyList == [InOrder EXCEPT ![2].platforms = << >>]

InitEmptyTargets ==
    /\ articles = WithEmptyList
    /\ config \in [start_date : StartDates, frequency : Frequencies]
    /\ today \in {d - 1 : d \in StartDates}
    /\ status = EmptyStatus
    /\ flag = FALSE
    /\ daemon = DaemonDown
    /\ run = [p \in {1} |-> Idle]
    /\ pubCount = [d \in Days |-> [pl \in UsedPlatforms |-> 0]]
    /\ aborts = MaxAborts
    /\ lastDispatch = [d \in Days |-> NoDispatch]

SpecEmptyTargets == InitEmptyTargets /\ [][Next]_vars

\* the ledger, the posts and the history after item a alone has been dispatched
\* with every publisher returning a url
StatusAfter(a) ==
    LET urls == [pl \in Range(ArticlePlatforms(a)) |-> 1]
    IN  mark_published(EmptyStatus, a.day, ArticlePlatforms(a), urls, Now(EmptyStatus, a.day))

PubCountAfter(a) ==
    [d \in Days |-> [pl \in UsedPlatforms |->
        IF d = a.day /\ pl \in Range(ArticlePlatforms(a)) THEN 1 ELSE 0]]

LastDispatchAfter(a) ==
    [d \in Days |->
        IF d = a.day
        THEN [ok |-> Range(ArticlePlatforms(a)), failed |-> {}, ended |-> "returned"]
        ELSE NoDispatch]

\* two command-line invocations at a time, late in a campaign whose last item
\* has been published by --day
InitConcurrent ==
    /\ articles = InOrder
    /\ config \in [start_date : StartDates, frequency : {"daily"}]
    /\ today = MaxToday - 1
    /\ status = StatusAfter(articles[MaxDay])
    /\ flag = FALSE
    /\ daemon = DaemonDown
    /\ run = [p \in {1, 2} |-> Idle]
    /\ pubCount = PubCountAfter(articles[MaxDay])
    /\ aborts = MaxAborts
    /\ lastDispatch = LastDispatchAfter(articles[MaxDay])

\* the steps of overlapping cmd_publish invocations
NextConcurrent ==
    \/ \E p \in DOMAIN run, dry \in BOOLEAN : CmdPublishToday(p, dry)
    \/ \E p \in DOMAIN run, d \in 1..(MaxDay + 1), dry \in BOOLEAN : CmdPublishDay(p, d, dry)
    \/ \E p \in DOMAIN run : PublishArticleBegin(p)
    \/ \E p \in DOMAIN run : AttemptOk(p)
    \/ \E p \in DOMAIN run : AttemptFail(p)
    \/ \E p \in DOMAIN run : AttemptRaise(p)
    \/ \E p \in DOMAIN run : MarkLoad(p)
    \/ \E p \in DOMAIN run : SaveOpen(p)
    \/ \E p \in DOMAIN run : SaveDump(p)
    \/ \E p \in DOMAIN run : SaveFail(p)
    \/ \E p \in DOMAIN run : RunEnd(p)
    \/ \E p \in DOMAIN run : ExceptionExit(p)
    \/ \E p \in DOMAIN run : Kill(p)
    \/ NextDay

SpecConcurrent == InitConcurrent /\ [][NextConcurrent]_vars

TypeOK ==
    /\ today \in -1..MaxToday
    /\ aborts \in 0..MaxAborts
    /\ \A d \in Days, pl \in UsedPlatforms : pubCount[d][pl] \in 0..MaxPosts

\* ---------------------------------------------------- vocabulary of the claims
\* the done-target set the ledger records for a day
DoneSet(st, d) == Range(get_published_platforms(st, d))

\* the recorded locations of a day
Locations(st, d) == ExistingUrls(st, d)

\* the targets of an item
Targets(a) == Range(ArticlePlatforms(a))

ArticleOfDay(d) == CHOOSE a \in Range(articles) : a.day = d

\* what the next dispatch of day d would attempt, given the ledger
RemainingSet(d) ==
    Range(RemainingPlatforms(status, d, ArticlePlatforms(ArticleOfDay(d))))

\* no publish_article call for day d is between its loop and its return
NotDispatching(d) ==
    \A p \in DOMAIN run :
        ~(run[p].pc \in {"loop", "mark", "save", "aborted", "ledger_error"}
              /\ run[p].day = d)

\* the due set a run starting now computes
DueNow == get_todays_articles(articles, load_status, config, today)

IsPast(a) == get_publish_date(a.day, config) < today

IsDueToday(a) == get_publish_date(a.day, config) = today

FullyDone(a) == Targets(a) \subseteq DoneSet(status, a.day)

\* a run (cmd_publish or daily_job) has just selected its due set
JustSelected(p) ==
    /\ run[p].pc = "next"
    /\ run[p].kind \in {"today", "daemon"}
    /\ run[p].todo = DueNow

\* ------------------------------------------------------------------ claims

\* C1: over any sequence of runs, interrupted ones included, each
\* (day, target) pair is successfully published by its publisher at most once.
C1_PublishedAtMostOnce ==
    \A d \in Days, pl \in UsedPlatforms : pubCount[d][pl] <= 1

\* C2: after a dispatch in which target A failed and target B succeeded, the
\* ledger records B as done and A as not done, and the next dispatch of the
\* item would attempt exactly A.
C2_PartialFailureIndependence ==
    \A d \in Days :
        LET r == lastDispatch[d]
        IN  (r.ended = "returned" /\ r.ok # {} /\ r.failed # {} /\ NotDispatching(d))
            => /\ r.ok \subseteq DoneSet(status, d)
               /\ r.failed \cap DoneSet(status, d) = {}
               /\ RemainingSet(d) = r.failed

\* C3: a target whose attempt failed and that has never succeeded stays in
\* the item's remaining set, so the next run attempts it again.
C3_FailedTargetStaysRemaining ==
    \A d \in Days :
        \A pl \in lastDispatch[d].failed :
            (pubCount[d][pl] = 0 /\ NotDispatching(d)) => pl \in RemainingSet(d)

\* C4: a failing target never aborts the dispatch: no failure leaves
\* publish_article as an exception, and when the call is over every remaining
\* target has been attempted.
C4_FailureIsolation ==
    \A p \in DOMAIN run :
        /\ run[p].pc # "aborted"
        /\ \A d \in Days :
               (lastDispatch[d].ended # "none" /\ NotDispatching(d))
               => Targets(ArticleOfDay(d)) \subseteq
                      (lastDispatch[d].ok \cup lastDispatch[d].failed)

\* the done-target set and the locations of day d agree in two ledgers
SameRecord(st1, st2, d) ==
    /\ DoneSet(st1, d) = DoneSet(st2, d)
    /\ Locations(st1, d) = Locations(st2, d)

\* C5: once an item has been dispatched, dispatching it again leaves the
\* day's done-target set and locations as they were after the first call, and
\* posts no target again that the first call completed.
C5_Idempotence ==
    [][\A d \in Days :
          lastDispatch[d].ended # "none"
          => /\ SameRecord(status, status', d)
             /\ \A pl \in lastDispatch[d].ok : pubCount'[d][pl] = pubCount[d][pl]]_vars

\* C6: an item whose date is strictly before today is in the catch-up part
\* of the due set if and only if its ledger record is not fully done.
C6_CatchupInclusion ==
    \A i \in 1..Len(articles) :
        IsPast(articles[i])
        => ((\E k \in 1..Len(DueNow) : DueNow[k] = articles[i] /\ ~IsDueToday(DueNow[k]))
            <=> ~FullyDone(articles[i]))

\* a run has just selected its due set while one item three days overdue has
\* an incomplete record (and is selected) and another is fully published (and
\* is left out)
C6_WitnessThreeDaysOverdue ==
    \E p \in DOMAIN run :
        /\ JustSelected(p)
        /\ \E k \in 1..Len(run[p].todo) :
               /\ today = get_publish_date(run[p].todo[k].day, config) + 3
               /\ ~FullyDone(run[p].todo[k])
        /\ \E i \in 1..Len(articles) :
               /\ today = get_publish_date(articles[i].day, config) + 3
               /\ FullyDone(articles[i])
               /\ articles[i] \notin Range(run[p].todo)

\* C7: an item with a target that has never succeeded is in the due set of
\* every run after its date, however much time has passed.
C7_NoLostCatchup ==
    \A i \in 1..Len(articles) :
        (/\ IsPast(articles[i])
         /\ NotDispatching(articles[i].day)
         /\ \E pl \in Targets(articles[i]) : pubCount[articles[i].day][pl] = 0)
        => articles[i] \in Range(DueNow)

\* C8: whatever the stored order of the content set, the catch-up part of the
\* due set is in ascending day number.
C8_CatchupAscending ==
    \A j, k \in 1..Len(DueNow) :
        (j < k /\ IsPast(DueNow[j]) /\ IsPast(DueNow[k])) => DueNow[j].day < DueNow[k].day

\* position of an item in the stored content set
IndexOf(a) == CHOOSE i \in 1..Len(articles) : articles[i] = a

\* C9: every item due today is in the due set whatever the ledger says, after
\* every catch-up item, and the today items are in content-set order.
C9_TodayItemsOffered ==
    /\ \A i \in 1..Len(articles) :
           IsDueToday(articles[i]) => articles[i] \in Range(DueNow)
    /\ \A j, k \in 1..Len(DueNow) :
           (IsDueToday(DueNow[j]) /\ ~IsDueToday(DueNow[k])) => k < j
    /\ \A j, k \in 1..Len(DueNow) :
           (j < k /\ IsDueToday(DueNow[j]) /\ IsDueToday(DueNow[k]))
           => IndexOf(DueNow[j]) < IndexOf(DueNow[k])

\* a run has just selected a due set holding a catch-up item followed by a
\* today item that the ledger already records as fully published
C9_WitnessDoneTodayAfterCatchup ==
    \E p \in DOMAIN run :
        /\ JustSelected(p)
        /\ \E j, k \in 1..Len(run[p].todo) :
               /\ j < k
               /\ IsPast(run[p].todo[j])
               /\ IsDueToday(run[p].todo[k])
               /\ FullyDone(run[p].todo[k])

\* C10: before the campaign start date the due set is empty, whatever the
\* content set and the ledger.
C10_EmptyBeforeStart ==
    today < config.start_date => DueNow = << >>

\* before the start date, with a non-empty ledger, a run finds nothing to do
C10_WitnessBeforeStart ==
    /\ today < config.start_date
    /\ DOMAIN status.published # {}
    /\ \A p \in DOMAIN run : run[p].pc = "idle"
    /\ ENABLED (\E p \in DOMAIN run : CmdPublishToday(p, FALSE) /\ run' = run)

\* the day numbers the schedule claims are evaluated on: beyond the content
\* sets, so that the third calendar date of the campaign is among them
ResolveDays == 1..(MaxDay + 2)

\* C11: for every day >= 1 the resolved date is start_date + floor((day-1)/2)
\* days with the daily cadence and start_date + 2*floor((day-1)/2) days with the
\* every-other-day cadence; with every-other-day, days 1 and 2 resolve to the
\* start date, days 3 and 4 to two days later and day 5 to four days later.
C11_ScheduleResolution ==
    /\ \A d \in ResolveDays :
           \E k \in 0..d :
               /\ 2 * k <= d - 1
               /\ d - 1 < 2 * (k + 1)
               /\ get_publish_date(d, config) =
                      config.start_date + (IF config.frequency = "daily" THEN k ELSE 2 * k)
    /\ config.frequency = "every_other_day"
       => /\ get_publish_date(1, config) = config.start_date
          /\ get_publish_date(2, config) = config.start_date
          /\ get_publish_date(3, config) = config.start_date + 2
          /\ get_publish_date(4, config) = config.start_date + 2
          /\ get_publish_date(5, config) = config.start_date + 4

\* with the every-other-day cadence, two days after the start, a run has just
\* selected day 3 as an item due today
C11_WitnessDayThreeEveryOtherDay ==
    \E p \in DOMAIN run :
        /\ JustSelected(p)
        /\ config.frequency = "every_other_day"
        /\ today = config.start_date + 2
        /\ \E k \in 1..Len(run[p].todo) :
               run[p].todo[k].day = 3 /\ IsDueToday(run[p].todo[k])

\* one cadence step, in days
CadenceStep(cfg) == IF cfg.frequency = "every_other_day" THEN 2 ELSE 1

\* C12: the resolved date never decreases with the day number, and two
\* consecutive days are at most one cadence step apart.
C12_ScheduleMonotonic ==
    \A d \in ResolveDays :
        /\ get_publish_date(d, config) <= get_publish_date(d + 1, config)
        /\ get_publish_date(d + 1, config) - get_publish_date(d, config)
               <= CadenceStep(config)

\* a run has just selected two consecutive days that lie one cadence step
\* apart: the earlier as catch-up, the later as due today
C12_WitnessConsecutiveDaysOneStepApart ==
    \E p \in DOMAIN run :
        /\ JustSelected(p)
        /\ \E j, k \in 1..Len(run[p].todo) :
               /\ run[p].todo[k].day = run[p].todo[j].day + 1
               /\ IsPast(run[p].todo[j])
               /\ IsDueToday(run[p].todo[k])
               /\ get_publish_date(run[p].todo[k].day, config)
                      = get_publish_date(run[p].todo[j].day, config) + CadenceStep(config)

\* day numbers below 1
InvalidDays == (0 - MaxDay)..0

\* C13: resolving a day number below 1 yields an error, not a calendar date.
C13_InvalidDayFailsFast ==
    \A d \in InvalidDays : get_publish_date(d, config) \notin Int

\* C14: for one day, recording {A: loc1} and then {B: loc2} with mark_published
\* leaves the same done-target set and locations as recording them in the
\* other order, and either way the final record holds both A and B.
C14_MergeOrderIndependent ==
    ~LoadRaises
    => \A d \in Days : \A A, B \in UsedPlatforms :
           A # B
           => LET st == load_status
                  recA(s) == mark_published(s, d, <<A>>, PutUrl(<< >>, A, 1), Now(s, d))
                  recB(s) == mark_published(s, d, <<B>>, PutUrl(<< >>, B, 2), Now(s, d))
                  ab == recB(recA(st))
                  ba == recA(recB(st))
              IN  /\ SameRecord(ab, ba, d)
                  /\ {A, B} \subseteq DoneSet(ab, d)
                  /\ {A, B} \subseteq DoneSet(ba, d)

\* C15: once mark_published has returned for a day, the ledger found after a
\* crash and restart at any later point holds that day's record with the
\* targets that were flushed.
C15_DurableAfterReturn ==
    (\A p \in DOMAIN run : run[p].pc = "idle")
    => \A d \in Days :
           lastDispatch[d].ended = "returned"
           => /\ ~LoadRaises
              /\ d \in DOMAIN load_status.published
              /\ lastDispatch[d].ok \subseteq DoneSet(load_status, d)

\* C16: when invocations dispatch different days with their load_status and
\* save_status steps interleaved, the ledger holds, whenever no write is in
\* progress, the record of every day whose mark_published has returned.
C16_ConcurrentDaysKeepRecords ==
    (\A p \in DOMAIN run : run[p].pc # "save")
    => \A d \in Days :
           lastDispatch[d].ended = "returned" => d \in DOMAIN status.published

\* C17: the status report shows a day as published only if every one of its
\* targets actually succeeded: a day with a target that never succeeded is
\* told apart from a fully published one.
C17_ReportPublishedOnlyIfAllSucceeded ==
    ~LoadRaises
    => \A i \in 1..Len(articles) :
           StatusMarker(articles[i], load_status, config, today) = "published"
           => \A pl \in Targets(articles[i]) : pubCount[articles[i].day][pl] >= 1

\* C18: in every ledger state, the recorded done-target set of a day is a
\* subset of the target list of the content item of that day.
C18_DoneSubsetOfTargets ==
    \A d \in DOMAIN status.published :
        DoneSet(status, d) \subseteq Targets(ArticleOfDay(d))

\* the ledger holds a record written by a dispatch in which a target failed
C18_WitnessRecordAfterFailure ==
    \E d \in DOMAIN status.published :
        /\ DoneSet(status, d) # {}
        /\ lastDispatch[d].ended = "returned"
        /\ lastDispatch[d].failed # {}

\* a process completes its ledger write in this step
WriteCompletes(p) == run[p].pc = "save" /\ run'[p].pc = "next"

C20_AttemptsExactlyRemaining ==
    [][\A p \in DOMAIN run :
          /\ (run[p].pc = "next" /\ run'[p].pc = "loop")
             => /\ run'[p].remaining # << >>
                /\ Range(run'[p].remaining) =
                       Targets(Head(run[p].todo)) \ DoneSet(status, Head(run[p].todo).day)
          /\ (run[p].pc = "loop" /\ run'[p].pc = "loop")
             => run'[p].attempted \o run'[p].remaining = run[p].attempted \o run[p].remaining
          /\ (run[p].pc = "loop" /\ run'[p].pc \in {"mark", "aborted"})
             => (Range(run[p].platforms) \ DoneSet(status, run[p].day))
                    \subseteq Range(run'[p].attempted)]_vars

\* C21: every ledger write for a day leaves a done-target set that is the
\* union of the set recorded before and the targets newly completed in that
\* dispatch, and keeps every day and every done target the ledger held.
C21_DoneSetGrowsByUnion ==
    [][\A p \in DOMAIN run :
          WriteCompletes(p)
          => /\ DoneSet(status', run[p].day) =
                    DoneSet(run[p].loaded, run[p].day) \cup Unrecorded(p)
             /\ \A d \in DOMAIN run[p].loaded.published :
                    /\ d \in DOMAIN status'.published
                    /\ DoneSet(run[p].loaded, d) \subseteq DoneSet(status', d)]_vars

\* C22: a ledger write leaves the published_at value of every record the
\* ledger already held as it was: the timestamp of a day is set once.
C22_PublishedAtSetOnce ==
    [][\A p \in DOMAIN run :
          WriteCompletes(p)
          => \A d \in DOMAIN run[p].loaded.published :
                 /\ d \in DOMAIN status'.published
                 /\ status'.published[d].published_at =
                        run[p].loaded.published[d].published_at]_vars

\* a run that is not a dry run is about to dispatch again a day whose record
\* an earlier dispatch has written
C22_WitnessRecordedDayDispatchedAgain ==
    \E p \in DOMAIN run :
        /\ run[p].pc = "next"
        /\ ~run[p].dry
        /\ run[p].todo # << >>
        /\ Head(run[p].todo).day \in DOMAIN status.published
        /\ lastDispatch[Head(run[p].todo).day].ended = "returned"

\* C23: whenever no save_status call is in progress, the ledger file holds a
\* complete document: a crash or an I/O error inside save_status never leaves
\* it truncated or partial.
C23_AtomicLedgerWrite ==
    (\A p \in DOMAIN run : run[p].pc # "save") => ~FileTorn(status)

\* C24: when invocations dispatched the same day with overlapping execution
\* and all of them are over, the day's record reflects every merge: each
\* target that one of them completed has its location in the record.
C24_SameDayMergesLinearizable ==
    \A d \in DOMAIN status.published :
        (NotDispatching(d) /\ \A p \in DOMAIN run : run[p].pc # "save")
        => \A pl \in Targets(ArticleOfDay(d)) :
               pubCount[d][pl] >= 1 => pl \in DOMAIN Locations(status, d)

\* C25: when save_status raises while an item is dispatched, the exception
\* stops the run (the run dispatches no further item, posts nothing more and
\* writes nothing more), and the ledger does not record the attempted targets
\* of that item as done.
C25_SaveFailureStopsRun ==
    [][\A p \in DOMAIN run :
          /\ (/\ run[p].pc \in {"mark", "save"}
              /\ lastDispatch' # lastDispatch
              /\ lastDispatch'[run[p].day].ended = "save_failed")
             => /\ run'[p].pc = "ledger_error"
                /\ \A pl \in Range(run[p].attempted) :
                       pl \notin DoneSet(status', run[p].day)
          /\ run[p].pc = "ledger_error"
             => /\ run'[p].pc \in {"ledger_error", "idle"}
                /\ pubCount' = pubCount
                /\ status' = status]_vars

\* save_status has raised for an item while later items of the same run were
\* still to be dispatched; the item has no record in the ledger
C25_WitnessSaveFailedWithItemsPending ==
    \E p \in DOMAIN run :
        /\ run[p].pc = "ledger_error"
        /\ run[p].day \in Days
        /\ lastDispatch[run[p].day].ended = "save_failed"
        /\ run[p].attempted # << >>
        /\ run[p].todo # << >>
        /\ run[p].day \notin DOMAIN status.published

\* C26: an error that escapes a dispatch in a daemon run ends that run only:
\* the daemon is still up afterwards.
C26_DaemonSurvivesFailedTick ==
    [][\A p \in DOMAIN run :
          (/\ daemon.up
           /\ run[p].kind = "daemon"
           /\ run[p].pc \in {"aborted", "ledger_error"})
          => daemon'.up]_vars

\* the daemon starts, or runs its pending daily job, in this step
DaemonRunsJob ==
    /\ daemon'.up
    /\ ~daemon.up \/ daemon'.nextTick # daemon.nextTick

\* C27: at startup and at every daily tick the daemon runs the job on the due
\* set computed from the content set, config and ledger as they are at that
\* moment; the job is next due today or tomorrow, never later.
C27_DaemonRunsDueSetAtStartupAndTick ==
    [][/\ DaemonRunsJob
          => IF SelectRaises(articles, config, today)
             THEN \E p \in DOMAIN run : run'[p].pc = "ledger_error"
             ELSE IF DueNow = << >>
             THEN run' = run
             ELSE \E p \in DOMAIN run :
                      /\ run[p].pc = "idle"
                      /\ run'[p].pc = "next"
                      /\ run'[p].kind = "daemon"
                      /\ run'[p].todo = DueNow
       /\ daemon'.up => daemon'.nextTick \in {today', today' + 1}]_vars

\* the daemon has just started, its scheduled time is still ahead today, and
\* its startup run has selected an item that became overdue before the start
C27_WitnessStartupRunCatchesUp ==
    \E p \in DOMAIN run :
        /\ daemon.up
        /\ daemon.nextTick = today
        /\ JustSelected(p)
        /\ run[p].kind = "daemon"
        /\ \E k \in 1..Len(run[p].todo) : IsPast(run[p].todo[k])

\* C28: for every content item whose date has passed, the selector treats it
\* as fully published exactly when the dispatcher would find no remaining
\* target for it (items without a target list and with an empty one included).
C28_SelectorAndDispatcherAgree ==
    \A i \in 1..Len(articles) :
        LET a == articles[i]
        IN  (IsPast(a) /\ ~LoadRaises)
            => (is_published(load_status, a.day, a.hasPlatforms, a.platforms)
                <=> RemainingPlatforms(load_status, a.day, ArticlePlatforms(a)) = << >>)

\* C29: while a dry run is in progress no publisher is invoked, the ledger is
\* not written and the campaign-complete flag is not written, so the remaining
\* targets a later real run computes are those before the dry run.
C29_DryRunHasNoEffect ==
    [][\A p \in DOMAIN run :
          (run[p].dry \/ run'[p].dry)
          => /\ status' = status
             /\ pubCount' = pubCount
             /\ flag' = flag
             /\ \A i \in 1..Len(articles) :
                    RemainingPlatforms(status', articles[i].day, ArticlePlatforms(articles[i]))
                    = RemainingPlatforms(status, articles[i].day, ArticlePlatforms(articles[i]))]_vars

\* a dry run of the due set has gone through all its items, one of which
\* still has targets to publish, on a ledger that already holds a record
C29_WitnessDryRunOverPendingItems ==
    \E p \in DOMAIN run :
        /\ run[p].dry
        /\ run[p].kind = "today"
        /\ run[p].pc = "next"
        /\ run[p].todo = << >>
        /\ status.published # << >>
        /\ \E k \in 1..Len(DueNow) :
               RemainingPlatforms(status, DueNow[k].day, ArticlePlatforms(DueNow[k])) # << >>

\* a list holds no value twice
NoRepeats(seq) ==
    \A i, j \in 1..Len(seq) : i # j => seq[i] # seq[j]

\* no item of the list is dated after now
NoneAfter(seq, cfg, now) ==
    \A k \in 1..Len(seq) : get_publish_date(seq[k].day, cfg) <= now

\* C30: the list get_todays_articles returns holds each content item at most
\* once and no item dated after today, and computing it changes neither the
\* ledger nor the content set.
C30_SelectorOutputWellFormed ==
    [][/\ NoRepeats(DueNow) /\ NoRepeats(DueNow')
       /\ NoneAfter(DueNow, config, today) /\ NoneAfter(DueNow', config', today')
       /\ \A p \in DOMAIN run :
              (run[p].pc = "idle" /\ run'[p].pc = "next")
              => /\ run'[p].kind = "day" \/ run'[p].todo = DueNow
                 /\ status' = status
                 /\ articles' = articles]_vars

\* a run has just selected two or more items, from a ledger that holds a
\* record, while another item is still dated after today
C30_WitnessSeveralSelected ==
    \E p \in DOMAIN run :
        /\ JustSelected(p)
        /\ Len(run[p].todo) >= 2
        /\ status.published # << >>
        /\ \E i \in 1..Len(articles) : get_publish_date(articles[i].day, config) > today

====
